---- MODULE Spec2Model ----
(***************************************************************************)
(* Model of main.py: a FastAPI service that registers a webhook with the   *)
(* SMS gateway at startup, answers POST /webhook/sms-received, and         *)
(* unregisters the webhook at shutdown.                                    *)
(*                                                                         *)
(* Strings are modelled as sequences of symbols where concatenation        *)
(* matters (request body, X-Timestamp), and as TLA+ strings elsewhere.     *)
(* Python's None is the value None; an attribute of app.state that was     *)
(* never assigned is the value Unset.                                      *)
(***************************************************************************)
EXTENDS Integers, Sequences, FiniteSets, Bags, TLC

VARIABLES settings, pc, webhook_id, outbound, raised, inflight, nreq,
          responses, console

vars == <<settings, pc, webhook_id, outbound, raised, inflight, nreq,
          responses, console>>

\* ---------------------------------------------------------------- bounds
\* Number of inbound requests accepted in one process lifetime.
MaxRequests == 2

\* ------------------------------------------------------------ data values
None == "<None>"
Unset == "<unset>"

\* Python truthiness of an Optional[str]: None and "" are falsy.
Truthy(s) == s # None /\ s # ""

\* Settings (main.py:13-30): the fields the code reads after construction.
SecretValues == {None, "", "k1"}
CredentialValues ==
    { [api_username |-> "user", api_password |-> "pass", webhook_url |-> "https://cb"],
      [api_username |-> None,   api_password |-> "pass", webhook_url |-> "https://cb"],
      [api_username |-> "user", api_password |-> "",     webhook_url |-> "https://cb"],
      [api_username |-> "user", api_password |-> "pass", webhook_url |-> None] }

Settings ==
    { [api_username |-> c.api_username, api_password |-> c.api_password,
       webhook_url |-> c.webhook_url, webhook_secret |-> s] :
        c \in CredentialValues, s \in SecretValues }

\* Ids the gateway may return from POST /webhooks.
GatewayIds == {"wh_1", "wh_2"}

\* --------------------------------------------------------------- requests
\* Request bodies, as symbol sequences.  "J1" / "J2" stand for a complete JSON
\* document that satisfies WebhookPayload and carries webhookId wh_1 / wh_2;
\* "JE" for a JSON document whose event is not "sms:received".  In a timestamp
\* "1" stands for the character 1.
Bodies == { <<"J1">>, <<"J2">>, <<"JE">> }

\* X-Timestamp header: absent, or a string (possibly empty).
NoHeader == [kind |-> "absent", val |-> <<>>]
Str(v) == [kind |-> "str", val |-> v]
Timestamps == { NoHeader, Str(<<>>), Str(<<"1">>) }

\* hmac.new(key, msg, sha256).hexdigest(): an ASCII string determined by the
\* key and the message, distinct for distinct (key, message).
hexdigest(key, msg) == [kind |-> "hex", key |-> key, msg |-> msg]

\* X-Signature header: absent, a string with a non-ASCII character, or a hex
\* digest made with the service's key or with another key.
NoSignature == [kind |-> "absent", key |-> "", msg |-> <<>>]
NonAsciiSignature == [kind |-> "nonascii", key |-> "", msg |-> <<>>]
Signatures ==
    { NoSignature, NonAsciiSignature,
      hexdigest("k1", <<"J1", "1">>),
      hexdigest("k2", <<"J1", "1">>) }

Requests == [body : Bodies, signature : Signatures, timestamp : Timestamps]

\* ------------------------------------------------------- pure operations
\* WebhookPayload.model_validate_json(body) (main.py:34-47, 134).
model_validate_json(body) ==
    IF body = <<"J1">> THEN [ok |-> TRUE, webhook_id |-> "wh_1", sms |-> "sms_a"]
    ELSE IF body = <<"J2">> THEN [ok |-> TRUE, webhook_id |-> "wh_2", sms |-> "sms_b"]
    ELSE [ok |-> FALSE, webhook_id |-> None, sms |-> None]

\* `not header` for request.headers.get(...): None or "".
HeaderFalsy(h) == h.kind = "absent" \/ (h.kind = "str" /\ h.val = <<>>)

\* hmac.compare_digest(a, b) on str arguments: TypeError unless both ASCII.
compare_digest(a, b) ==
    IF a.kind = "nonascii" \/ b.kind = "nonascii" THEN "TypeError"
    ELSE IF a = b THEN "True" ELSE "False"

\* Variant of signature_stage that tests `secret is not None` instead of the
\* truthiness of the secret.
signature_stage_is_not_none(req, secret) ==
    IF secret = None THEN "skip"
    ELSE IF HeaderFalsy(req.signature) \/ HeaderFalsy(req.timestamp) THEN "401"
    ELSE LET expected_signature == hexdigest(secret, req.body \o req.timestamp.val)
             cmp == compare_digest(req.signature, expected_signature)
         IN  IF cmp = "TypeError" THEN "500"
             ELSE IF cmp = "False" THEN "401"
             ELSE "pass"

\* The signature stage (main.py:119-130): "skip", "pass", 401 or 500.
signature_stage(req, secret) ==
    IF ~Truthy(secret) THEN "skip"
    ELSE IF HeaderFalsy(req.signature) \/ HeaderFalsy(req.timestamp) THEN "401"
    ELSE LET expected_signature == hexdigest(secret, req.body \o req.timestamp.val)
             cmp == compare_digest(req.signature, expected_signature)
         IN  IF cmp = "TypeError" THEN "500"
             ELSE IF cmp = "False" THEN "401"
             ELSE "pass"

\* Variant of handler_result that prints the SMS fields before the webhook
\* identity check.
handler_result_prints_early(req, secret, wid) ==
    LET sig == signature_stage(req, secret)
        payload == model_validate_json(req.body)
    IN  IF sig \in {"401", "500"} THEN [status |-> sig, printed |-> FALSE]
        ELSE IF ~payload.ok THEN [status |-> "400", printed |-> FALSE]
        ELSE IF wid = Unset THEN [status |-> "500", printed |-> TRUE]
        ELSE IF payload.webhook_id # wid THEN [status |-> "400", printed |-> TRUE]
        ELSE [status |-> "200", printed |-> TRUE]

\* Variant of handler_result without the webhook identity check.
handler_result_no_id_check(req, secret, wid) ==
    LET sig == signature_stage(req, secret)
        payload == model_validate_json(req.body)
    IN  IF sig \in {"401", "500"} THEN [status |-> sig, printed |-> FALSE]
        ELSE IF ~payload.ok THEN [status |-> "400", printed |-> FALSE]
        ELSE [status |-> "200", printed |-> TRUE]

\* The whole handler after the body is read (main.py:119-148): the HTTP
\* status and whether the SMS fields were printed.  An exception that is not
\* an HTTPException is answered 500 by the framework.
handler_result(req, secret, wid) ==
    LET sig == signature_stage(req, secret)
        payload == model_validate_json(req.body)
    IN  IF sig \in {"401", "500"} THEN [status |-> sig, printed |-> FALSE]
        ELSE IF ~payload.ok THEN [status |-> "400", printed |-> FALSE]
        ELSE IF wid = Unset THEN [status |-> "500", printed |-> FALSE]
        ELSE IF payload.webhook_id # wid THEN [status |-> "400", printed |-> FALSE]
        ELSE [status |-> "200", printed |-> TRUE]

\* Variant of credentials_missing that skips the call only when all three
\* settings are absent.
credentials_missing_all(s) ==
    ~Truthy(s.api_username) /\ ~Truthy(s.api_password) /\ ~Truthy(s.webhook_url)

\* Both register_webhook and unregister_webhook start with this test.
credentials_missing(s) ==
    ~Truthy(s.api_username) \/ ~Truthy(s.api_password) \/ ~Truthy(s.webhook_url)

\* Outcomes of an outbound gateway call.
PostOutcomes ==
    { [result |-> "ok", id |-> i] : i \in GatewayIds }
    \cup { [result |-> r, id |-> None] :
             r \in {"network_error", "http_error", "no_id_in_json"} }
DeleteOutcomes == {"ok", "network_error", "http_error"}

\* Variant of register_webhook that catches the error of a failed call.
register_webhook_swallows(s, out) ==
    IF credentials_missing(s)
    THEN [calls |-> <<>>, id |-> Unset, exc |-> None, printed |-> <<>>]
    ELSE LET call == [method |-> "POST", path |-> "/webhooks", result |-> out.result,
                      returned |-> out.id]
         IN  IF out.result = "ok"
             THEN [calls |-> <<call>>, id |-> out.id, exc |-> None,
                   printed |-> <<[line |-> "Registered", arg |-> out.id]>>]
             ELSE [calls |-> <<call>>, id |-> Unset, exc |-> None, printed |-> <<>>]

\* register_webhook (main.py:54-76): the call issued, the id stored, the
\* exception raised and the line printed, for a given gateway outcome.
register_webhook(s, out) ==
    IF credentials_missing(s)
    THEN [calls |-> <<>>, id |-> Unset, exc |-> None, printed |-> <<>>]
    ELSE LET call == [method |-> "POST", path |-> "/webhooks", result |-> out.result,
                      returned |-> out.id]
         IN  IF out.result = "ok"
             THEN [calls |-> <<call>>, id |-> out.id, exc |-> None,
                   printed |-> <<[line |-> "Registered", arg |-> out.id]>>]
             ELSE [calls |-> <<call>>, id |-> Unset, exc |-> out.result, printed |-> <<>>]

\* Variant of unregister_webhook that catches the error of a failed call.
unregister_webhook_swallows(s, wid, out) ==
    IF credentials_missing(s) \/ wid = Unset
    THEN [calls |-> <<>>, exc |-> None, printed |-> <<>>]
    ELSE LET call == [method |-> "DELETE", path |-> wid, result |-> out, returned |-> None]
         IN  IF out = "ok"
             THEN [calls |-> <<call>>, exc |-> None,
                   printed |-> <<[line |-> "Unregistered", arg |-> wid]>>]
             ELSE [calls |-> <<call>>, exc |-> None, printed |-> <<>>]

\* unregister_webhook (main.py:79-96): the call issued, the exception raised
\* and the line printed, for a given gateway outcome.
unregister_webhook(s, wid, out) ==
    IF credentials_missing(s) \/ wid = Unset
    THEN [calls |-> <<>>, exc |-> None, printed |-> <<>>]
    ELSE LET call == [method |-> "DELETE", path |-> wid, result |-> out, returned |-> None]
         IN  IF out = "ok"
             THEN [calls |-> <<call>>, exc |-> None,
                   printed |-> <<[line |-> "Unregistered", arg |-> wid]>>]
             ELSE [calls |-> <<call>>, exc |-> out, printed |-> <<>>]

SeqToBag(sq) == [x \in {sq[i] : i \in 1..Len(sq)} |-> 1]

\* ------------------------------------------------------------------ state
Init ==
    /\ settings \in Settings
    /\ pc = "start"
    /\ webhook_id = Unset
    /\ outbound = <<>>
    /\ raised = None
    /\ inflight = EmptyBag
    /\ nreq = 0
    /\ responses = EmptyBag
    /\ console = EmptyBag

\* lifespan up to its yield (main.py:105-106).
lifespan_startup ==
    /\ pc = "start"
    /\ \E out \in PostOutcomes :
         LET r == register_webhook(settings, out)
         IN  /\ outbound' = outbound \o r.calls
             /\ webhook_id' = r.id
             /\ raised' = r.exc
             /\ console' = console (+) SeqToBag(r.printed)
             /\ pc' = IF r.exc = None THEN "serving" ELSE "startup_failed"
    /\ UNCHANGED <<settings, inflight, nreq, responses>>

\* A request arrives and the handler awaits its body (main.py:113-117).
receive_request(req) ==
    /\ pc = "serving"
    /\ nreq < MaxRequests
    /\ nreq' = nreq + 1
    /\ inflight' = inflight (+) SetToBag({req})
    /\ UNCHANGED <<settings, pc, webhook_id, outbound, raised, responses, console>>

\* The line the handler prints for an accepted SMS record.
ReceivedSMS(sms) == [line |-> "Received SMS", arg |-> sms]

\* Variant of handle_sms_webhook that rejects a request it has answered before.
handle_sms_webhook_dedup(req) ==
    /\ pc = "serving"
    /\ BagIn(req, inflight)
    /\ LET res == handler_result(req, settings.webhook_secret, webhook_id)
           seen == \E a \in BagToSet(responses) : a.req = req
           status == IF seen /\ res.status = "200" THEN "400" ELSE res.status
       IN  /\ responses' = responses (+) SetToBag({[req |-> req, status |-> status]})
           /\ console' = IF status = "200"
                         THEN console (+) SetToBag({ReceivedSMS(model_validate_json(req.body).sms)})
                         ELSE console
    /\ inflight' = inflight (-) SetToBag({req})
    /\ UNCHANGED <<settings, pc, webhook_id, outbound, raised, nreq>>

\* Variant of handle_sms_webhook that stores the webhook id of a parsed payload.
handle_sms_webhook_stores_id(req) ==
    /\ pc = "serving"
    /\ BagIn(req, inflight)
    /\ LET res == handler_result(req, settings.webhook_secret, webhook_id)
           payload == model_validate_json(req.body)
       IN  /\ responses' = responses (+) SetToBag({[req |-> req, status |-> res.status]})
           /\ console' = IF res.printed
                         THEN console (+) SetToBag({ReceivedSMS(payload.sms)})
                         ELSE console
           /\ webhook_id' = IF payload.ok THEN payload.webhook_id ELSE webhook_id
    /\ inflight' = inflight (-) SetToBag({req})
    /\ UNCHANGED <<settings, pc, outbound, raised, nreq>>

\* The handler runs from the body to the response (main.py:119-148).
handle_sms_webhook(req) ==
    /\ pc = "serving"
    /\ BagIn(req, inflight)
    /\ LET res == handler_result(req, settings.webhook_secret, webhook_id)
       IN  /\ responses' = responses (+) SetToBag({[req |-> req, status |-> res.status]})
           /\ console' = IF res.printed
                         THEN console (+) SetToBag({ReceivedSMS(model_validate_json(req.body).sms)})
                         ELSE console
    /\ inflight' = inflight (-) SetToBag({req})
    /\ UNCHANGED <<settings, pc, webhook_id, outbound, raised, nreq>>

\* lifespan after its yield (main.py:107): the server has drained its requests.
lifespan_shutdown ==
    /\ pc = "serving"
    /\ inflight = EmptyBag
    /\ \E out \in DeleteOutcomes :
         LET r == unregister_webhook(settings, webhook_id, out)
         IN  /\ outbound' = outbound \o r.calls
             /\ raised' = r.exc
             /\ console' = console (+) SeqToBag(r.printed)
             /\ pc' = IF r.exc = None THEN "stopped" ELSE "shutdown_failed"
    /\ UNCHANGED <<settings, webhook_id, inflight, nreq, responses>>

Next ==
    \/ lifespan_startup
    \/ \E req \in Requests : receive_request(req)
    \/ \E req \in Requests : handle_sms_webhook(req)
    \/ lifespan_shutdown

Spec == Init /\ [][Next]_vars

\* ============================================================ properties
\* Vocabulary of the properties, stated on the request and the settings
\* rather than through the handler's own operators.
Answered == BagToSet(responses)
SecretConfigured == settings.webhook_secret \notin {None, ""}
Managed ==
    /\ settings.api_username \notin {None, ""}
    /\ settings.api_password \notin {None, ""}
    /\ settings.webhook_url \notin {None, ""}
HeaderMissing(h) == h.kind = "absent"
NoSignatureHeaders(req) == HeaderMissing(req.signature) /\ HeaderMissing(req.timestamp)
SignatureCorrect(req) ==
    /\ req.signature.kind = "hex" /\ req.timestamp.kind = "str" /\ req.timestamp.val # <<>>
    /\ req.signature.key = settings.webhook_secret
    /\ req.signature.msg = req.body \o req.timestamp.val
SignatureStagePassedOrSkipped(req) == ~SecretConfigured \/ SignatureCorrect(req)
SchemaValid(req) == req.body \in {<<"J1">>, <<"J2">>}
WebhookIdOf(req) == IF req.body = <<"J1">> THEN "wh_1" ELSE "wh_2"
SmsOf(req) == IF req.body = <<"J1">> THEN "sms_a" ELSE "sms_b"
Posts == {i \in 1..Len(outbound) : outbound[i].method = "POST"}
Deletes == {i \in 1..Len(outbound) : outbound[i].method = "DELETE"}
PostFailed == \E i \in Posts : outbound[i].result # "ok"
DeleteFailed == \E i \in Deletes : outbound[i].result # "ok"
\* Number of 200 answers given to requests whose SMS record is sms.
Count200(sms) ==
    LET hits == {a \in Answered : a.status = "200" /\ SchemaValid(a.req) /\ SmsOf(a.req) = sms}
    IN  IF hits = {} THEN 0 ELSE BagCardinality([a \in hits |-> responses[a]])

\* C1: with username, password or callback URL absent, startup issues no
\* outbound call and the server starts, and every request that reaches the
\* webhook identity check (signature stage passed or skipped, body
\* schema-valid) is answered 400.
C1_UnmanagedAnswers400 ==
    ~Managed =>
        /\ outbound = <<>>
        /\ pc # "startup_failed"
        /\ \A a \in Answered :
             (SignatureStagePassedOrSkipped(a.req) /\ SchemaValid(a.req)) => a.status = "400"

\* C2 (as stated): a failed DELETE at shutdown does not propagate out of the
\* shutdown sequence, which completes as it does when the DELETE succeeds.
C2_ShutdownFailureContained ==
    DeleteFailed => (raised = None /\ pc = "stopped")

\* C2 (amended): a failed DELETE at shutdown propagates out of
\* unregister_webhook and of lifespan, the "Unregistered" line is not printed
\* and the shutdown ends failed; a successful DELETE ends it stopped with the
\* line printed.  Either way the registered id is untouched.
C2_ShutdownFailurePropagates ==
    \A i \in Deletes :
        /\ webhook_id = outbound[i].path
        /\ IF outbound[i].result # "ok"
           THEN /\ raised = outbound[i].result
                /\ pc = "shutdown_failed"
                /\ ~BagIn([line |-> "Unregistered", arg |-> webhook_id], console)
           ELSE /\ raised = None
                /\ pc = "stopped"
                /\ BagIn([line |-> "Unregistered", arg |-> webhook_id], console)

C2_Witness == DeleteFailed /\ pc = "shutdown_failed" /\ responses # EmptyBag

\* C3: with a secret configured, every request with a missing X-Signature or
\* X-Timestamp header, or whose X-Signature differs from the hex HMAC of
\* body || timestamp, is answered 401 (never 400 or 200) and nothing of it
\* is printed, whatever its body.
C3_BadSignatureAnswers401 ==
    SecretConfigured =>
        \A a \in Answered :
            (HeaderMissing(a.req.signature) \/ HeaderMissing(a.req.timestamp)
               \/ ~SignatureCorrect(a.req))
            => a.status = "401"

\* C4: every schema-valid request that passes or skips the signature stage and
\* whose webhookId equals the registered id is answered 200, and the SMS
\* record of a request is printed exactly once per 200 answer and never
\* otherwise.
C4_ValidRequestAnswers200LoggedOnce ==
    /\ \A a \in Answered :
         (SignatureStagePassedOrSkipped(a.req) /\ SchemaValid(a.req)
            /\ webhook_id # Unset /\ WebhookIdOf(a.req) = webhook_id)
         => a.status = "200"
    /\ \A sms \in {"sms_a", "sms_b"} :
         CopiesIn(ReceivedSMS(sms), console) = Count200(sms)

C4_Witness ==
    \E a \in Answered :
        /\ a.status = "200" /\ SecretConfigured /\ SignatureCorrect(a.req)
        /\ CopiesIn(ReceivedSMS(SmsOf(a.req)), console) = 1
        /\ \E b \in Answered : b.status # "200" /\ SchemaValid(b.req)

\* C5 (as stated): once an id is registered, every request whose payload
\* webhookId differs from it is answered 400.
C5_MismatchAnswers400 ==
    webhook_id # Unset =>
        \A a \in Answered :
            (SchemaValid(a.req) /\ WebhookIdOf(a.req) # webhook_id) => a.status = "400"

\* C5 (amended): once an id is registered, every request that passes or skips
\* the signature stage and whose payload webhookId differs from it is answered
\* 400 and its SMS record is not printed.
C5_MismatchPastSignatureAnswers400 ==
    webhook_id # Unset =>
        \A a \in Answered :
            (SignatureStagePassedOrSkipped(a.req) /\ SchemaValid(a.req)
               /\ WebhookIdOf(a.req) # webhook_id)
            => /\ a.status = "400"
               /\ ~BagIn(ReceivedSMS(SmsOf(a.req)), console)

C5_Witness ==
    \E a \in Answered :
        /\ webhook_id # Unset /\ SecretConfigured /\ SignatureCorrect(a.req)
        /\ SchemaValid(a.req) /\ WebhookIdOf(a.req) # webhook_id
        /\ a.status = "400"

\* C6: when the POST /webhooks of startup fails, the error propagates and
\* startup aborts: from then on the registered id is not set, no request is
\* received or answered, and no DELETE is issued.
C6_FailedRegistrationAbortsStartup ==
    PostFailed =>
        /\ pc = "startup_failed"
        /\ raised # None
        /\ webhook_id = Unset
        /\ nreq = 0 /\ inflight = EmptyBag /\ responses = EmptyBag
        /\ Deletes = {}

C6_Witness == PostFailed /\ pc = "startup_failed"

\* C7: with no secret configured no request is answered 401, and a schema-valid
\* request carrying the registered id and neither signature header is
\* answered 200.
C7_NoSecretNoSignatureNeeded ==
    ~SecretConfigured =>
        \A a \in Answered :
            /\ a.status # "401"
            /\ (NoSignatureHeaders(a.req) /\ SchemaValid(a.req)
                  /\ webhook_id # Unset /\ WebhookIdOf(a.req) = webhook_id)
               => a.status = "200"

C7_Witness ==
    /\ settings.webhook_secret = ""
    /\ \E a \in Answered : NoSignatureHeaders(a.req) /\ a.status = "200"
    /\ \E a \in Answered : ~NoSignatureHeaders(a.req) /\ a.status = "400"

\* C8: at most one POST /webhooks, first and only when username, password and
\* callback URL are all present; at most one DELETE, at shutdown, only after a
\* successful POST and for exactly the id that POST returned; with a setting
\* absent neither call is issued.
C8_OutboundCallsFollowLifecycle ==
    /\ Cardinality(Posts) <= 1 /\ Cardinality(Deletes) <= 1
    /\ Posts # {} => (Managed /\ Posts = {1} /\ pc # "start")
    /\ Deletes # {} =>
         /\ Deletes = {2} /\ Posts = {1}
         /\ outbound[1].result = "ok"
         /\ outbound[2].path = outbound[1].returned
         /\ pc \in {"stopped", "shutdown_failed"}
    /\ ~Managed => outbound = <<>>
    /\ (Managed /\ pc # "start") => Posts = {1}

C8_Witness ==
    /\ Len(outbound) = 2 /\ outbound[2].method = "DELETE" /\ outbound[2].path = "wh_2"
    /\ responses # EmptyBag

\* C9: a request is answered the same way every time it is handled in one
\* process lifetime, and a valid request (signature stage passed or skipped,
\* schema-valid, webhookId equal to the registered id) is answered 200 on every
\* replay.
C9_ReplayAnswersAlike ==
    /\ \A a, b \in Answered : a.req = b.req => a.status = b.status
    /\ \A a \in Answered :
         (CopiesIn(a, responses) >= 2 /\ SignatureStagePassedOrSkipped(a.req)
            /\ SchemaValid(a.req) /\ webhook_id # Unset /\ WebhookIdOf(a.req) = webhook_id)
         => a.status = "200"

C9_Witness ==
    \E a \in Answered :
        /\ CopiesIn(a, responses) >= 2 /\ a.status = "200"
        /\ SecretConfigured /\ SignatureCorrect(a.req)

\* C10: the registered id changes only in the startup step, from unset to the
\* id the gateway returned, before any request is received; no step that
\* receives or answers a request changes it.
C10_WebhookIdWrittenOnceBeforeServing ==
    [][ /\ webhook_id' # webhook_id =>
            /\ pc = "start" /\ pc' = "serving"
            /\ webhook_id = Unset /\ nreq = 0
            /\ Len(outbound') = 1 /\ webhook_id' = outbound'[1].returned
        /\ (responses' # responses \/ inflight' # inflight) => webhook_id' = webhook_id
      ]_vars

C10_Witness ==
    /\ webhook_id # Unset
    /\ inflight # EmptyBag
    /\ \E a \in Answered : a.status \in {"200", "400", "401"}
====
